---- MODULE Spec2Model ----
(***************************************************************************)
(* The mask decomposition of PennFudanDataset.__getitem__                  *)
(* (mobilenet-goshtify-torchvision_finetuning_instance_segmentation-.ipynb,*)
(* lines 224-261): a colour-indexed label grid is split into one binary    *)
(* mask per object id, a bounding box per mask, and the tensors of the     *)
(* target dictionary.                                                      *)
(*                                                                         *)
(* A label grid is the record [H, W, nz]: H rows, W columns, and nz the    *)
(* function from the positions <<row, col>> (0-based) that hold a non-zero *)
(* value to that value; every other position holds 0.  Every grid has      *)
(* exactly one such record, so nothing is lost, and a grid of several      *)
(* thousand rows and columns stays representable.                          *)
(***************************************************************************)
EXTENDS Integers, Sequences, FiniteSets, TLC

\* ------------------------------------------------------------------ bounds
MaxCells == 5
MaxLabel == 2
MaxCalls == 2
MaxStemLen == 2
MaxSamples == 2
MaxN == 52
BigDim == 4098
MaxClasses == 24

\* ------------------------------------------------------- program constants
\* torch.float32 keeps a 24-bit significand
F32Bits == 24
\* indices[:-50], indices[-50:]
TestSize == 50
\* num_epochs = 1
NumEpochs == 1
\* num_workers=4
NumWorkers == 4
\* backbone.out_channels = 1280
OutChannels == 1280
\* output_size=7
RoiOutputSize == 7
\* sampling_ratio=2
SamplingRatio == 2
\* FasterRCNN(backbone, num_classes=2, ...)
BuiltNumClasses == 2
\* a box regression has the four coordinates xmin, ymin, xmax, ymax
BoxCoords == 4

VARIABLES PNGImages, PedMasks, self, idx, img,
          mask, pc, obj_ids, masks, num_objs, boxes, i, boxes_t, labels,
          masks_t, area, iscrowd, target, err, calls, returned,
          cell, indices, train_idx, test_idx, epoch, events, fetched,
          wpc, widx, wret, frames,
          num_classes, backbone, anchor_generator, roi_pooler, model, mcell

\* the two directories on disk and the dataset object
dsVars == <<PNGImages, PedMasks, self>>

\* the state of the cells that split the dataset and train the model
auxVars == <<cell, indices, train_idx, test_idx, epoch, events, fetched>>

\* the DataLoader workers: where each one is, the index it was given, what
\* it returned, and the locals of the call it runs
workerVars == <<wpc, widx, wret, frames>>

\* the call of get_instance_segmentation_model: its argument, its locals,
\* the model it returns and the statement it has reached
modelVars == <<num_classes, backbone, anchor_generator, roi_pooler, model, mcell>>

vars == <<PNGImages, PedMasks, self, idx, img,
          mask, pc, obj_ids, masks, num_objs, boxes, i, boxes_t, labels,
          masks_t, area, iscrowd, target, err, calls, returned, auxVars,
          workerVars, modelVars>>

\* ------------------------------------------------------------ label grids
Positions(h, w) == (0..(h - 1)) \X (0..(w - 1))

\* the record of the grid whose pixel at p is f[p]
MkGrid(h, w, f) ==
    LET nzpos == {p \in DOMAIN f : f[p] # 0}
    IN  [H |-> h, W |-> w, nz |-> [p \in nzpos |-> f[p]]]

Pixel(m, p) == IF p \in DOMAIN m.nz THEN m.nz[p] ELSE 0

HasBackground(m) == Cardinality(DOMAIN m.nz) < m.H * m.W

\* the values present in the grid
Values(m) == {m.nz[p] : p \in DOMAIN m.nz} \cup (IF HasBackground(m) THEN {0} ELSE {})

\* every grid of at most MaxCells pixels over 0..MaxLabel, the grids without
\* rows or without columns included
SmallGrids ==
    UNION { UNION { { MkGrid(h, w, f) : f \in [Positions(h, w) -> 0..MaxLabel] }
                    : w \in {x \in 0..MaxCells : h * x <= MaxCells} }
            : h \in 0..MaxCells }

Grid3x3 == MkGrid(3, 3, [p \in Positions(3, 3) |->
              IF p \in {<<0, 2>>, <<1, 1>>, <<1, 2>>} THEN 1
              ELSE IF p \in {<<2, 0>>, <<2, 1>>} THEN 2 ELSE 0])

Grid5 == MkGrid(1, 1, [p \in Positions(1, 1) |-> 5])

Grid317 == MkGrid(2, 3, [p \in Positions(2, 3) |->
              IF p = <<0, 1>> THEN 3 ELSE IF p = <<1, 0>> THEN 1
              ELSE IF p = <<1, 2>> THEN 7 ELSE 0])

ExampleGrids == {Grid3x3, Grid5, Grid317}

\* grids of 1 or BigDim rows and columns whose non-zero pixels lie in the
\* corners
Corners(h, w) == {0, h - 1} \X {0, w - 1}

LargeGrids ==
    UNION { UNION { { MkGrid(h, w, f) : f \in [Corners(h, w) -> 0..MaxLabel] }
                    : w \in {1, BigDim} } : h \in {1, BigDim} }

\* ------------------------------------------------------------ numpy, torch
SetMin(S) == CHOOSE x \in S : \A y \in S : x <= y
SetMax(S) == CHOOSE x \in S : \A y \in S : x >= y

RECURSIVE SortSet(_)
SortSet(S) ==
    IF S = {} THEN <<>>
    ELSE LET lo == CHOOSE x \in S : \A y \in S : x <= y
         IN  <<lo>> \o SortSet(S \ {lo})

RECURSIVE SortSetDesc(_)
SortSetDesc(S) ==
    IF S = {} THEN <<>>
    ELSE LET hi == CHOOSE x \in S : \A y \in S : x >= y
         IN  <<hi>> \o SortSetDesc(S \ {hi})

\* every value from the smallest to the largest present, ascending, whether
\* or not a pixel holds it
UniqueRange(m) ==
    IF Values(m) = {} THEN <<>>
    ELSE [k \in 1..(SetMax(Values(m)) - SetMin(Values(m)) + 1) |->
             SetMin(Values(m)) + k - 1]

\* the distinct values in descending order
UniqueDescending(m) == SortSetDesc(Values(m))

\* the distinct values in an order that changes from one call to the next
UniqueByRun(m) == IF calls % 2 = 1 THEN SortSet(Values(m)) ELSE SortSetDesc(Values(m))

\* np.unique(mask): the distinct values, ascending
Unique(m) == SortSet(Values(m))

\* obj_ids kept whole
KeepAll(ids) == ids

\* obj_ids[1:]
DropFirst(ids) == IF Len(ids) = 0 THEN <<>> ELSE Tail(ids)

\* mask == v for one v: the positions where the comparison is True
EqMask(m, v) ==
    IF v = 0 THEN Positions(m.H, m.W) \ DOMAIN m.nz
    ELSE {p \in DOMAIN m.nz : m.nz[p] = v}

\* mask == obj_ids[:, None, None]: one boolean H x W plane per id
Broadcast(m, ids) == [k \in 1..Len(ids) |-> EqMask(m, ids[k])]

\* the box with pos[0] taken for the columns and pos[1] for the rows
BoxOfSwapped(pos) ==
    LET rows == {p[1] : p \in pos}
        cols == {p[2] : p \in pos}
    IN  <<SetMin(rows), SetMin(cols), SetMax(rows), SetMax(cols)>>

\* np.where(masks[i]) and the four np.min / np.max: pos[0] are the rows,
\* pos[1] the columns
BoxOf(pos) ==
    LET rows == {p[1] : p \in pos}
        cols == {p[2] : p \in pos}
    IN  <<SetMin(cols), SetMin(rows), SetMax(cols), SetMax(rows)>>

RECURSIVE Pow2(_)
Pow2(k) == IF k = 0 THEN 1 ELSE 2 * Pow2(k - 1)

RECURSIVE Shift(_, _)
\* the number of low bits a non-negative integer loses in float32
Shift(n, e) == IF n < Pow2(F32Bits + e) THEN e ELSE Shift(n, e + 1)

\* the float32 nearest to the integer n, ties to even
F32(n) ==
    IF n < 0 THEN 0 - (LET a == 0 - n
                           step == Pow2(Shift(a, 0))
                           q == a \div step
                           r == a % step
                       IN  IF 2 * r < step \/ (2 * r = step /\ q % 2 = 0)
                           THEN q * step ELSE (q + 1) * step)
    ELSE LET step == Pow2(Shift(n, 0))
             q == n \div step
             r == n % step
         IN  IF 2 * r < step \/ (2 * r = step /\ q % 2 = 0)
             THEN q * step ELSE (q + 1) * step

\* the conversion that gives the empty list the shape [0, 4]
AsTensorF32Reshaped(list) ==
    [shape |-> <<Len(list), 4>>,
     data |-> [k \in 1..Len(list) |-> [j \in 1..4 |-> F32(list[k][j])]]]

\* torch.as_tensor(boxes, dtype=torch.float32): a list of N four-element
\* rows becomes a tensor of shape [N, 4]; the empty list becomes a tensor of
\* shape [0]
AsTensorF32(list) ==
    IF Len(list) = 0 THEN [shape |-> <<0>>, data |-> <<>>]
    ELSE [shape |-> <<Len(list), 4>>,
          data |-> [k \in 1..Len(list) |-> [j \in 1..4 |-> F32(list[k][j])]]]

\* torch.as_tensor(masks, dtype=torch.uint8): True becomes 1, False 0; ones
\* holds, per plane, the positions of the 1s
AsTensorU8(m, planes) ==
    [shape |-> <<Len(planes), m.H, m.W>>, ones |-> planes]

\* the labels 1, 2, ..., n, one per object id
Arange(n) == [k \in 1..n |-> k]

\* torch.ones((n,), dtype=torch.int64), torch.zeros((n,), dtype=torch.int64)
Ones(n) == [k \in 1..n |-> 1]
Zeros(n) == [k \in 1..n |-> 0]

\* boxes[:, 3], boxes[:, 1], ...: two indices need a tensor of two dimensions
CanIndexColumns(t) == Len(t.shape) >= 2

\* the area that counts the pixels of the box, both ends included
AreaOfInclusive(t) ==
    [k \in 1..Len(t.data) |->
        F32(F32(t.data[k][4] - t.data[k][2] + 1) * F32(t.data[k][3] - t.data[k][1] + 1))]

\* (boxes[:, 3] - boxes[:, 1]) * (boxes[:, 2] - boxes[:, 0]) in float32
AreaOf(t) ==
    [k \in 1..Len(t.data) |->
        F32(F32(t.data[k][4] - t.data[k][2]) * F32(t.data[k][3] - t.data[k][1]))]

None == [none |-> TRUE]

\* ------------------------------------------------------------ file names
\* a file name is the sequence of its character codes
PngSuffix == <<46, 112, 110, 103>>                          \* ".png"
MaskSuffix == <<95, 109, 97, 115, 107, 46, 112, 110, 103>>  \* "_mask.png"

ImageName(stem) == stem \o PngSuffix
MaskName(stem) == stem \o MaskSuffix

\* a < b for Python strings: code point by code point, a proper prefix first
RECURSIVE StrLess(_, _)
StrLess(a, b) ==
    IF Len(b) = 0 THEN FALSE
    ELSE IF Len(a) = 0 THEN TRUE
    ELSE IF Head(a) # Head(b) THEN Head(a) < Head(b)
    ELSE StrLess(Tail(a), Tail(b))

\* list(sorted(names))
RECURSIVE Sorted(_)
Sorted(S) ==
    IF S = {} THEN <<>>
    ELSE LET lo == CHOOSE x \in S : \A y \in S \ {x} : StrLess(x, y)
         IN  <<lo>> \o Sorted(S \ {lo})

\* __len__
DatasetLen(s) == Len(s.imgs)

\* the image id every sample gets when ids are not taken from the index
ImageIdZero(n) == <<0>>

\* torch.tensor([idx])
ImageId(n) == <<n>>

\* the directories of a dataset with the one sample "a" whose mask is g
OneSample(g) == [png |-> {ImageName(<<97>>)},
                 ped |-> [name \in {MaskName(<<97>>)} |-> g]]

\* the stem of a file name
StemOfImage(name) == SubSeq(name, 1, Len(name) - Len(PngSuffix))
StemOfMask(name) == SubSeq(name, 1, Len(name) - Len(MaskSuffix))

\* the stems of at most MaxStemLen characters over "0" and "a"
Stems == UNION { [1..k -> {48, 97}] : k \in 1..MaxStemLen }

StemSets == {S \in SUBSET Stems : Cardinality(S) <= MaxSamples}

\* the mask of the sample named stem: one row, label k where the k-th
\* character is "a", background elsewhere and in the last column; different
\* stems have different masks, and a stem of "0"s has an all-background mask
GridOfStem(stem) ==
    MkGrid(1, Len(stem) + 1,
           [p \in Positions(1, Len(stem) + 1) |->
               IF p[2] < Len(stem) /\ stem[p[2] + 1] = 97 THEN p[2] + 1 ELSE 0])

\* the directories of the dataset whose samples are the stems of S
Samples(S) == [png |-> {ImageName(st) : st \in S},
               ped |-> [name \in {MaskName(st) : st \in S} |->
                           GridOfStem(StemOfMask(name))]]

\* what __getitem__ returns for the mask g and the index n when nothing
\* else runs: lines 224-261 composed
Decompose(g, n) ==
    LET ids == DropFirst(Unique(g))
        planes == Broadcast(g, ids)
        bt == AsTensorF32([k \in 1..Len(ids) |-> BoxOf(planes[k])])
    IN  IF \E k \in 1..Len(ids) : planes[k] = {}
        THEN [err |-> "ValueError", target |-> None]
        ELSE IF ~CanIndexColumns(bt)
        THEN [err |-> "IndexError", target |-> None]
        ELSE [err |-> "none",
              target |-> [boxes |-> bt, labels |-> Ones(Len(ids)),
                          masks |-> AsTensorU8(g, planes),
                          image_id |-> ImageId(n), area |-> AreaOf(bt),
                          iscrowd |-> Zeros(Len(ids))]]

\* --------------------------------------------------------------- the steps
Locals0 ==
    /\ idx = None /\ img = None /\ mask = None
    /\ obj_ids = <<>> /\ masks = <<>> /\ num_objs = 0 /\ boxes = <<>>
    /\ i = 0 /\ boxes_t = None /\ labels = <<>> /\ masks_t = None
    /\ area = <<>> /\ iscrowd = <<>> /\ target = None /\ err = "none"

Control0 == pc = "new" /\ self = None /\ calls = 0 /\ returned = <<>>

\* no DataLoader worker exists
Workers0 == wpc = <<>> /\ widx = <<>> /\ wret = <<>> /\ frames = <<>>

\* get_instance_segmentation_model has not been called
Model0 ==
    /\ num_classes = None /\ backbone = None /\ anchor_generator = None
    /\ roi_pooler = None /\ model = None /\ mcell = "off"

\* the split and training cells have not run
Cells0 ==
    /\ cell = "off" /\ indices = None /\ train_idx = None /\ test_idx = None
    /\ epoch = 0 /\ events = <<>> /\ fetched = {}

Init ==
    /\ \E g \in SmallGrids \cup ExampleGrids :
          PNGImages = OneSample(g).png /\ PedMasks = OneSample(g).ped
    /\ Control0
    /\ Locals0
    /\ Cells0
    /\ Workers0
    /\ Model0

InitDataset ==
    /\ \E S \in StemSets :
          PNGImages = Samples(S).png /\ PedMasks = Samples(S).ped
    /\ Control0
    /\ Locals0
    /\ Cells0
    /\ Workers0
    /\ Model0

InitLarge ==
    /\ \E g \in LargeGrids :
          PNGImages = OneSample(g).png /\ PedMasks = OneSample(g).ped
    /\ Control0
    /\ Locals0
    /\ Cells0
    /\ Workers0
    /\ Model0

\* dataset = PennFudanDataset('PennFudanPed/'): __init__ with transforms=None
DatasetInit ==
    /\ pc = "new"
    /\ self' = [root |-> "PennFudanPed/", transforms |-> None,
                imgs |-> Sorted(PNGImages), masks |-> Sorted(DOMAIN PedMasks)]
    /\ pc' = "idle"
    /\ UNCHANGED <<PNGImages, PedMasks, idx, img, mask, obj_ids, masks,
                   num_objs, boxes, i, boxes_t, labels, masks_t, area,
                   iscrowd, target, err, calls, returned, auxVars, workerVars, modelVars>>

\* __getitem__(n) is entered for a valid index n: the image and the mask
\* named by imgs[n] and masks[n] are opened, mask = np.array(mask)
Call ==
    /\ pc = "idle" /\ calls < MaxCalls
    /\ \E n \in 0..(DatasetLen(self) - 1) :
          /\ idx' = n
          /\ img' = self.imgs[n + 1]
          /\ mask' = PedMasks[self.masks[n + 1]]
    /\ pc' = "unique"
    /\ calls' = calls + 1
    /\ err' = "none" /\ target' = None
    /\ UNCHANGED <<obj_ids, masks, num_objs, boxes, i, boxes_t, labels,
                   masks_t, area, iscrowd, returned, dsVars, auxVars, workerVars, modelVars>>

\* obj_ids = np.unique(mask)
DoUnique ==
    /\ pc = "unique"
    /\ obj_ids' = Unique(mask)
    /\ pc' = "strip"
    /\ UNCHANGED <<idx, img, mask, masks, num_objs, boxes, i, boxes_t, labels,
                   masks_t, area, iscrowd, target, err, calls, returned,
                   dsVars, auxVars, workerVars, modelVars>>

\* obj_ids = obj_ids[1:]
DoStrip ==
    /\ pc = "strip"
    /\ obj_ids' = DropFirst(obj_ids)
    /\ pc' = "split"
    /\ UNCHANGED <<idx, img, mask, masks, num_objs, boxes, i, boxes_t, labels,
                   masks_t, area, iscrowd, target, err, calls, returned,
                   dsVars, auxVars, workerVars, modelVars>>

\* the split that also stores the planes in self.masks
DoSplitOnSelf ==
    /\ pc = "split"
    /\ masks' = Broadcast(mask, obj_ids)
    /\ self' = [self EXCEPT !.masks = Broadcast(mask, obj_ids)]
    /\ num_objs' = Len(obj_ids)
    /\ boxes' = <<>>
    /\ i' = 0
    /\ pc' = "loop"
    /\ UNCHANGED <<idx, img, mask, obj_ids, boxes_t, labels, masks_t, area,
                   iscrowd, target, err, calls, returned, PNGImages, PedMasks,
                   auxVars, workerVars, modelVars>>

\* masks = mask == obj_ids[:, None, None]; num_objs = len(obj_ids); boxes = []
DoSplit ==
    /\ pc = "split"
    /\ masks' = Broadcast(mask, obj_ids)
    /\ num_objs' = Len(obj_ids)
    /\ boxes' = <<>>
    /\ i' = 0
    /\ pc' = "loop"
    /\ UNCHANGED <<idx, img, mask, obj_ids, boxes_t, labels, masks_t, area,
                   iscrowd, target, err, calls, returned, dsVars, auxVars, workerVars, modelVars>>

\* one iteration of for i in range(num_objs); np.min of an empty array
\* raises ValueError
DoBox ==
    /\ pc = "loop" /\ i < num_objs
    /\ IF masks[i + 1] = {}
       THEN /\ err' = "ValueError" /\ pc' = "raised"
            /\ UNCHANGED <<boxes, i>>
       ELSE /\ boxes' = Append(boxes, BoxOf(masks[i + 1]))
            /\ i' = i + 1
            /\ UNCHANGED <<err, pc>>
    /\ UNCHANGED <<idx, img, mask, obj_ids, masks, num_objs, boxes_t, labels,
                   masks_t, area, iscrowd, target, calls, returned, dsVars,
                   auxVars, workerVars, modelVars>>

\* boxes, labels, masks become tensors
DoTensors ==
    /\ pc = "loop" /\ i >= num_objs
    /\ boxes_t' = AsTensorF32(boxes)
    /\ labels' = Ones(num_objs)
    /\ masks_t' = AsTensorU8(mask, masks)
    /\ pc' = "area"
    /\ UNCHANGED <<idx, img, mask, obj_ids, masks, num_objs, boxes, i, area,
                   iscrowd, target, err, calls, returned, dsVars, auxVars, workerVars, modelVars>>

\* image_id, area, iscrowd and the target dictionary; indexing a
\* one-dimensional tensor with [:, 3] raises IndexError.  self.transforms is
\* None, so lines 263-264 change nothing.
DoArea ==
    /\ pc = "area"
    /\ IF CanIndexColumns(boxes_t)
       THEN /\ area' = AreaOf(boxes_t)
            /\ iscrowd' = Zeros(num_objs)
            /\ target' = [boxes |-> boxes_t, labels |-> labels,
                          masks |-> masks_t, image_id |-> ImageId(idx),
                          area |-> AreaOf(boxes_t),
                          iscrowd |-> Zeros(num_objs)]
            /\ pc' = "done"
            /\ UNCHANGED err
       ELSE /\ err' = "IndexError" /\ pc' = "raised"
            /\ UNCHANGED <<area, iscrowd, target>>
    /\ UNCHANGED <<idx, img, mask, obj_ids, masks, num_objs, boxes, i,
                   boxes_t, labels, masks_t, calls, returned, dsVars, auxVars, workerVars, modelVars>>

\* the call ends, with img and the target or with the exception
Return ==
    /\ pc \in {"done", "raised"}
    /\ returned' = Append(returned, [idx |-> idx, err |-> err,
                                     img |-> IF err = "none" THEN img ELSE None,
                                     target |-> target])
    /\ pc' = "idle"
    /\ UNCHANGED <<idx, img, mask, obj_ids, masks, num_objs, boxes, i,
                   boxes_t, labels, masks_t, area, iscrowd, target, err,
                   calls, dsVars, auxVars, workerVars, modelVars>>

Next == DatasetInit \/ Call \/ DoUnique \/ DoStrip \/ DoSplit \/ DoBox
            \/ DoTensors \/ DoArea \/ Return

Spec == Init /\ [][Next]_vars

SpecLarge == InitLarge /\ [][Next]_vars

SpecDataset == InitDataset /\ [][Next]_vars

\* ------------------------------------------------ the split and the training
\* the stem of the k-th of up to 100 samples: two decimal digits
NumberedStem(k) == <<48 + (k \div 10), 48 + (k % 10)>>

\* torch.randperm(n).tolist(): a permutation of 0..n-1, drawn here from the
\* rotations of the ascending and of the descending order
Rotation(n, r) == [k \in 1..n |-> (k - 1 + r) % n]
ReverseRotation(n, r) == [k \in 1..n |-> (n - k + r) % n]
RandPerms(n) ==
    IF n = 0 THEN {<<>>}
    ELSE {Rotation(n, r) : r \in 0..(n - 1)}
            \cup {ReverseRotation(n, r) : r \in 0..(n - 1)}

\* seq[:-k] for k >= 1
DropLast(seq, k) == IF Len(seq) <= k THEN <<>> ELSE SubSeq(seq, 1, Len(seq) - k)

\* seq[-(k - 1):], one element short
TakeLastShort(seq, k) ==
    IF Len(seq) <= k - 1 THEN seq ELSE SubSeq(seq, Len(seq) - k + 2, Len(seq))

\* seq[-k:] for k >= 1
TakeLast(seq, k) ==
    IF Len(seq) <= k THEN seq ELSE SubSeq(seq, Len(seq) - k + 1, Len(seq))

\* Subset.__getitem__(j) is dataset[indices[j]]; of the sample only the
\* image_id of its target is kept
SubsetFetch(name, sub) ==
    {[subset |-> name, pos |-> j - 1, image_id |-> ImageId(sub[j])] : j \in 1..Len(sub)}

InitSplit ==
    /\ \E n \in 0..MaxN :
          LET S == {NumberedStem(k) : k \in 0..(n - 1)}
          IN  PNGImages = Samples(S).png /\ PedMasks = Samples(S).ped
    /\ Control0
    /\ Locals0
    /\ cell = "split" /\ indices = None /\ train_idx = None /\ test_idx = None
    /\ epoch = 0 /\ events = <<>> /\ fetched = {}
    /\ Workers0
    /\ Model0

\* indices = torch.randperm(len(dataset)).tolist() and the two Subsets
SplitCell ==
    /\ cell = "split" /\ pc = "idle"
    /\ \E p \in RandPerms(DatasetLen(self)) :
          /\ indices' = p
          /\ train_idx' = DropLast(p, TestSize)
          /\ test_idx' = TakeLast(p, TestSize)
    /\ cell' = "loaders"
    /\ UNCHANGED <<workerVars, modelVars, dsVars, idx, img, mask, pc, obj_ids, masks, num_objs,
                   boxes, i, boxes_t, labels, masks_t, area, iscrowd, target,
                   err, calls, returned, epoch, events, fetched>>

\* the two DataLoaders; the shuffling sampler of the training loader may
\* refuse an empty dataset
LoadersCell ==
    /\ cell = "loaders"
    /\ cell' \in (IF Len(train_idx) = 0 THEN {"train", "failed"} ELSE {"train"})
    /\ UNCHANGED <<workerVars, modelVars, dsVars, idx, img, mask, pc, obj_ids, masks, num_objs,
                   boxes, i, boxes_t, labels, masks_t, area, iscrowd, target,
                   err, calls, returned, indices, train_idx, test_idx, epoch,
                   events, fetched>>

\* for epoch in range(num_epochs): train_one_epoch(...) reads every sample
\* of the training Subset
TrainOneEpoch ==
    /\ cell = "train" /\ epoch < NumEpochs
    /\ events' = Append(events, <<"train_one_epoch", epoch>>)
    /\ fetched' = fetched \cup SubsetFetch("train", train_idx)
    /\ cell' = "lr_step"
    /\ UNCHANGED <<workerVars, modelVars, dsVars, idx, img, mask, pc, obj_ids, masks, num_objs,
                   boxes, i, boxes_t, labels, masks_t, area, iscrowd, target,
                   err, calls, returned, indices, train_idx, test_idx, epoch>>

\* lr_scheduler.step()
LrStep ==
    /\ cell = "lr_step"
    /\ events' = Append(events, <<"lr_scheduler.step", epoch>>)
    /\ cell' = "evaluate"
    /\ UNCHANGED <<workerVars, modelVars, dsVars, idx, img, mask, pc, obj_ids, masks, num_objs,
                   boxes, i, boxes_t, labels, masks_t, area, iscrowd, target,
                   err, calls, returned, indices, train_idx, test_idx, epoch,
                   fetched>>

\* evaluate(model, data_loader_test, ...) reads every sample of the test
\* Subset; the loop body ends
Evaluate ==
    /\ cell = "evaluate"
    /\ events' = Append(events, <<"evaluate", epoch>>)
    /\ fetched' = fetched \cup SubsetFetch("test", test_idx)
    /\ epoch' = epoch + 1
    /\ cell' = "train"
    /\ UNCHANGED <<workerVars, modelVars, dsVars, idx, img, mask, pc, obj_ids, masks, num_objs,
                   boxes, i, boxes_t, labels, masks_t, area, iscrowd, target,
                   err, calls, returned, indices, train_idx, test_idx>>

\* range(num_epochs) is exhausted
LoopEnd ==
    /\ cell = "train" /\ epoch >= NumEpochs
    /\ cell' = "finished"
    /\ UNCHANGED <<workerVars, modelVars, dsVars, idx, img, mask, pc, obj_ids, masks, num_objs,
                   boxes, i, boxes_t, labels, masks_t, area, iscrowd, target,
                   err, calls, returned, indices, train_idx, test_idx, epoch,
                   events, fetched>>

NextSplit == DatasetInit \/ SplitCell \/ LoadersCell \/ TrainOneEpoch
                \/ LrStep \/ Evaluate \/ LoopEnd

SpecSplit == InitSplit /\ [][NextSplit]_vars

\* ------------------------------------------------- the DataLoader workers
Workers == 1..NumWorkers

\* the locals of one call of __getitem__ before the call assigns them
Frame0 ==
    [idx |-> None, img |-> None, mask |-> None, obj_ids |-> <<>>,
     masks |-> <<>>, num_objs |-> 0, boxes |-> <<>>, i |-> 0,
     boxes_t |-> None, labels |-> <<>>, masks_t |-> None, area |-> <<>>,
     iscrowd |-> <<>>, target |-> None, err |-> "none"]

\* every call writing its locals into one and the same frame
SharedFrame(w) == 1

\* the frame that holds the locals of the call run by worker w: its own
FrameOf(w) == w

\* the samples "0" (all background) and "aa" (two instances)
WorkerSamples == { <<48>>, <<97, 97>> }

InitWorkers ==
    /\ PNGImages = Samples(WorkerSamples).png
    /\ PedMasks = Samples(WorkerSamples).ped
    /\ Control0
    /\ Locals0
    /\ Cells0
    /\ wpc = [w \in Workers |-> "idle"]
    /\ widx = [w \in Workers |-> None]
    /\ wret = [w \in Workers |-> None]
    /\ frames = [w \in Workers |-> Frame0]
    /\ Model0

\* what the steps of the workers leave alone
WorkerFrame ==
    UNCHANGED <<dsVars, idx, img, mask, pc, obj_ids, masks, num_objs, boxes, i,
                boxes_t, labels, masks_t, area, iscrowd, target, err, calls,
                returned, auxVars, modelVars>>

\* worker w is handed the index n and enters __getitem__(n)
WCall(w) ==
    /\ pc = "idle" /\ wpc[w] = "idle"
    /\ \E n \in 0..(DatasetLen(self) - 1) :
          /\ widx' = [widx EXCEPT ![w] = n]
          /\ frames' = [frames EXCEPT ![FrameOf(w)] =
                           [@ EXCEPT !.idx = n, !.img = self.imgs[n + 1],
                                     !.mask = PedMasks[self.masks[n + 1]],
                                     !.err = "none", !.target = None]]
    /\ wpc' = [wpc EXCEPT ![w] = "unique"]
    /\ UNCHANGED wret
    /\ WorkerFrame

\* obj_ids = np.unique(mask)
WUnique(w) ==
    /\ wpc[w] = "unique"
    /\ frames' = [frames EXCEPT ![FrameOf(w)] =
                     [@ EXCEPT !.obj_ids = Unique(frames[FrameOf(w)].mask)]]
    /\ wpc' = [wpc EXCEPT ![w] = "strip"]
    /\ UNCHANGED <<widx, wret>>
    /\ WorkerFrame

\* obj_ids = obj_ids[1:]
WStrip(w) ==
    /\ wpc[w] = "strip"
    /\ frames' = [frames EXCEPT ![FrameOf(w)] =
                     [@ EXCEPT !.obj_ids = DropFirst(frames[FrameOf(w)].obj_ids)]]
    /\ wpc' = [wpc EXCEPT ![w] = "split"]
    /\ UNCHANGED <<widx, wret>>
    /\ WorkerFrame

\* masks = mask == obj_ids[:, None, None]; num_objs = len(obj_ids); boxes = []
WSplit(w) ==
    /\ wpc[w] = "split"
    /\ frames' = [frames EXCEPT ![FrameOf(w)] =
                     [@ EXCEPT !.masks = Broadcast(frames[FrameOf(w)].mask,
                                                   frames[FrameOf(w)].obj_ids),
                               !.num_objs = Len(frames[FrameOf(w)].obj_ids),
                               !.boxes = <<>>, !.i = 0]]
    /\ wpc' = [wpc EXCEPT ![w] = "loop"]
    /\ UNCHANGED <<widx, wret>>
    /\ WorkerFrame

\* one iteration of for i in range(num_objs)
WBox(w) ==
    LET f == frames[FrameOf(w)]
    IN  /\ wpc[w] = "loop" /\ f.i < f.num_objs
        /\ IF f.masks[f.i + 1] = {}
           THEN /\ frames' = [frames EXCEPT ![FrameOf(w)] =
                                 [f EXCEPT !.err = "ValueError"]]
                /\ wpc' = [wpc EXCEPT ![w] = "raised"]
           ELSE /\ frames' = [frames EXCEPT ![FrameOf(w)] =
                                 [f EXCEPT !.boxes = Append(f.boxes, BoxOf(f.masks[f.i + 1])),
                                           !.i = f.i + 1]]
                /\ UNCHANGED wpc
        /\ UNCHANGED <<widx, wret>>
        /\ WorkerFrame

\* boxes, labels, masks become tensors
WTensors(w) ==
    LET f == frames[FrameOf(w)]
    IN  /\ wpc[w] = "loop" /\ f.i >= f.num_objs
        /\ frames' = [frames EXCEPT ![FrameOf(w)] =
                         [f EXCEPT !.boxes_t = AsTensorF32(f.boxes),
                                   !.labels = Ones(f.num_objs),
                                   !.masks_t = AsTensorU8(f.mask, f.masks)]]
        /\ wpc' = [wpc EXCEPT ![w] = "area"]
        /\ UNCHANGED <<widx, wret>>
        /\ WorkerFrame

\* image_id, area, iscrowd and the target dictionary
WArea(w) ==
    LET f == frames[FrameOf(w)]
    IN  /\ wpc[w] = "area"
        /\ IF CanIndexColumns(f.boxes_t)
           THEN /\ frames' = [frames EXCEPT ![FrameOf(w)] =
                                 [f EXCEPT !.area = AreaOf(f.boxes_t),
                                           !.iscrowd = Zeros(f.num_objs),
                                           !.target =
                                              [boxes |-> f.boxes_t,
                                               labels |-> f.labels,
                                               masks |-> f.masks_t,
                                               image_id |-> ImageId(f.idx),
                                               area |-> AreaOf(f.boxes_t),
                                               iscrowd |-> Zeros(f.num_objs)]]]
                /\ wpc' = [wpc EXCEPT ![w] = "done"]
           ELSE /\ frames' = [frames EXCEPT ![FrameOf(w)] =
                                 [f EXCEPT !.err = "IndexError"]]
                /\ wpc' = [wpc EXCEPT ![w] = "raised"]
        /\ UNCHANGED <<widx, wret>>
        /\ WorkerFrame

\* the call of worker w ends, with the target or with the exception
WReturn(w) ==
    /\ wpc[w] \in {"done", "raised"}
    /\ wret' = [wret EXCEPT ![w] = [err |-> frames[FrameOf(w)].err,
                                    target |-> frames[FrameOf(w)].target]]
    /\ wpc' = [wpc EXCEPT ![w] = "returned"]
    /\ UNCHANGED <<widx, frames>>
    /\ WorkerFrame

NextWorkers ==
    \/ DatasetInit
    \/ \E w \in Workers :
          WCall(w) \/ WUnique(w) \/ WStrip(w) \/ WSplit(w) \/ WBox(w)
             \/ WTensors(w) \/ WArea(w) \/ WReturn(w)

SpecWorkers == InitWorkers /\ [][NextWorkers]_vars

\* ------------------------------------------ get_instance_segmentation_model
\* sizes=((32, 64, 128, 256, 512),)
AnchorSizes == <<32, 64, 128, 256, 512>>

\* aspect_ratios=((0.5, 1.0, 2.0),), each written as twice its value
AspectRatiosX2 == <<1, 2, 4>>

\* torchvision.models.mobilenet_v2(pretrained=True).features
MobilenetFeatures == [name |-> "mobilenet_v2.features", out_channels |-> None]

\* AnchorGenerator(sizes, aspect_ratios): one anchor per size and ratio at
\* every spatial location
AnchorGenerator(sizes, ratios) ==
    [sizes |-> sizes, aspect_ratios |-> ratios,
     num_anchors |-> Len(sizes) * Len(ratios)]

\* torchvision.ops.MultiScaleRoIAlign(featmap_names, output_size, sampling_ratio)
MultiScaleRoIAlign(names, size, ratio) ==
    [featmap_names |-> names, output_size |-> size, sampling_ratio |-> ratio]

\* FasterRCNN(backbone, num_classes=nc, ...): the box predictor has one
\* class score and one box regression per class
FasterRCNN(b, nc, ag, rp) ==
    [backbone |-> b, rpn_anchor_generator |-> ag, box_roi_pool |-> rp,
     cls_score |-> nc, bbox_pred |-> nc * BoxCoords]

\* the value written for num_classes in the call of FasterRCNN: the literal 2
PassedNumClasses(nc) == BuiltNumClasses

\* the function is called with some argument
InitModel ==
    /\ PNGImages = Samples(WorkerSamples).png
    /\ PedMasks = Samples(WorkerSamples).ped
    /\ Control0
    /\ Locals0
    /\ Cells0
    /\ Workers0
    /\ num_classes \in 1..MaxClasses
    /\ backbone = None /\ anchor_generator = None /\ roi_pooler = None
    /\ model = None
    /\ mcell = "backbone"

\* what the statements of the function leave alone
ModelFrame ==
    UNCHANGED <<dsVars, idx, img, mask, pc, obj_ids, masks, num_objs, boxes, i,
                boxes_t, labels, masks_t, area, iscrowd, target, err, calls,
                returned, auxVars, workerVars, num_classes>>

\* backbone = torchvision.models.mobilenet_v2(pretrained=True).features
LoadBackbone ==
    /\ mcell = "backbone"
    /\ backbone' = MobilenetFeatures
    /\ mcell' = "out_channels"
    /\ UNCHANGED <<anchor_generator, roi_pooler, model>>
    /\ ModelFrame

\* backbone.out_channels = 1280
SetOutChannels ==
    /\ mcell = "out_channels"
    /\ backbone' = [backbone EXCEPT !.out_channels = OutChannels]
    /\ mcell' = "anchors"
    /\ UNCHANGED <<anchor_generator, roi_pooler, model>>
    /\ ModelFrame

\* anchor_generator = AnchorGenerator(...)
MakeAnchors ==
    /\ mcell = "anchors"
    /\ anchor_generator' = AnchorGenerator(AnchorSizes, AspectRatiosX2)
    /\ mcell' = "roi"
    /\ UNCHANGED <<backbone, roi_pooler, model>>
    /\ ModelFrame

\* roi_pooler = torchvision.ops.MultiScaleRoIAlign(...)
MakeRoiPooler ==
    /\ mcell = "roi"
    /\ roi_pooler' = MultiScaleRoIAlign(<<0>>, RoiOutputSize, SamplingRatio)
    /\ mcell' = "build"
    /\ UNCHANGED <<backbone, anchor_generator, model>>
    /\ ModelFrame

\* model = FasterRCNN(backbone, num_classes=2, ...); return model
BuildModel ==
    /\ mcell = "build"
    /\ model' = FasterRCNN(backbone, PassedNumClasses(num_classes),
                           anchor_generator, roi_pooler)
    /\ mcell' = "returned"
    /\ UNCHANGED <<backbone, anchor_generator, roi_pooler>>
    /\ ModelFrame

NextModel ==
    LoadBackbone \/ SetOutChannels \/ MakeAnchors \/ MakeRoiPooler \/ BuildModel

SpecModel == InitModel /\ [][NextModel]_vars

\* ------------------------------------------------------------- properties
Terminated == pc \in {"done", "raised"}

\* the number of instances of the returned target
NumInstances == Len(target.masks.ones)

\* the distinct non-zero values of the grid
NonZeroValues == Values(mask) \ {0}

\* the value the grid holds under the pixels of the k-th returned mask
LabelOfInstance(k) == Pixel(mask, CHOOSE p \in target.masks.ones[k] : TRUE)

PositiveSize == mask.H >= 1 /\ mask.W >= 1

\* C1: for every grid with H >= 1 and W >= 1 the decomposition returns
\* exactly one instance per distinct non-zero value, grids without a
\* background pixel included.
C1_OneInstancePerValue ==
    (Terminated /\ PositiveSize) =>
        /\ pc = "done"
        /\ NumInstances = Cardinality(NonZeroValues)
        /\ \A v \in NonZeroValues :
              \E k \in 1..NumInstances : target.masks.ones[k] = EqMask(mask, v)

\* C2: decomposing an all-zero grid of positive size raises nothing and
\* returns a target with zero instances.
C2_AllZeroReturnsEmpty ==
    (Terminated /\ PositiveSize /\ Values(mask) = {0}) =>
        /\ pc = "done" /\ err = "none"
        /\ NumInstances = 0
        /\ target.boxes.data = <<>> /\ target.labels = <<>>
        /\ target.area = <<>> /\ target.iscrowd = <<>>

\* C3: every pixel holding a non-zero value is true in exactly one returned
\* mask, and the mask of the instance for label v is true at a position
\* exactly when the grid holds v there.
C3_Coverage ==
    pc = "done" =>
        /\ \A p \in Positions(mask.H, mask.W) :
              Pixel(mask, p) # 0 =>
                 Cardinality({k \in 1..NumInstances : p \in target.masks.ones[k]}) = 1
        /\ \A k \in 1..NumInstances : \A p \in Positions(mask.H, mask.W) :
              (p \in target.masks.ones[k]) <=> (Pixel(mask, p) = obj_ids[k])
        /\ \A k \in 1..NumInstances : obj_ids[k] # 0

\* C4: the box of every returned instance is the minimal rectangle over all
\* true pixels of its mask: no true pixel outside it, each of the four
\* bounds attained; one box per label even when its pixels are disconnected.
C4_BboxTight ==
    pc = "done" =>
        /\ Len(target.boxes.data) = NumInstances
        /\ \A k \in 1..NumInstances :
              LET b == target.boxes.data[k]
                  px == target.masks.ones[k]
              IN  /\ \A p \in px : b[1] <= p[2] /\ p[2] <= b[3]
                                   /\ b[2] <= p[1] /\ p[1] <= b[4]
                  /\ \E p \in px : p[2] = b[1]
                  /\ \E p \in px : p[1] = b[2]
                  /\ \E p \in px : p[2] = b[3]
                  /\ \E p \in px : p[1] = b[4]

\* a returned instance whose pixels form two regions of one row separated by
\* a pixel of another value, with one box over both
C4_Witness ==
    /\ pc = "done"
    /\ \E k \in 1..NumInstances :
          \E p, q \in target.masks.ones[k] :
             /\ p[1] = q[1] /\ q[2] = p[2] + 2
             /\ <<p[1], p[2] + 1>> \notin target.masks.ones[k]
             /\ target.boxes.data[k][1] <= p[2] /\ target.boxes.data[k][3] >= q[2]

\* C5: the returned instances are in strictly ascending order of their
\* original label value, wherever the labels lie in the grid.
C5_AscendingLabels ==
    pc = "done" =>
        \A j, k \in 1..NumInstances :
           j < k => LabelOfInstance(j) < LabelOfInstance(k)

\* labels 3, 1, 7 met in that order by a row-major scan, returned as 1, 3, 7
C5_Witness ==
    /\ pc = "done" /\ mask = Grid317
    /\ NumInstances = 3
    /\ <<LabelOfInstance(1), LabelOfInstance(2), LabelOfInstance(3)>> = <<1, 3, 7>>

\* the exact integer product (xmax - xmin) * (ymax - ymin) of the k-th box
BoxProduct(k) ==
    (target.boxes.data[k][3] - target.boxes.data[k][1])
        * (target.boxes.data[k][4] - target.boxes.data[k][2])

\* C6 as stated: the area of every returned instance equals exactly
\* (xmax - xmin) * (ymax - ymin) of its own box.
C6_AreaExact ==
    pc = "done" =>
        /\ Len(target.area) = NumInstances
        /\ \A k \in 1..NumInstances : target.area[k] = BoxProduct(k)

\* C6 amended: the area of every returned instance is the float32 nearest to
\* (xmax - xmin) * (ymax - ymin) of its own box; it is that product exactly
\* whenever the product is at most 2^24, so a box one pixel wide or one
\* pixel high has area 0.
C6_AreaFloat32 ==
    pc = "done" =>
        /\ Len(target.area) = NumInstances
        /\ \A k \in 1..NumInstances :
              /\ target.area[k] = F32(BoxProduct(k))
              /\ BoxProduct(k) <= Pow2(F32Bits) => target.area[k] = BoxProduct(k)
              /\ (target.boxes.data[k][3] = target.boxes.data[k][1]
                    \/ target.boxes.data[k][4] = target.boxes.data[k][2])
                 => target.area[k] = 0

\* a returned target with a box whose product float32 cannot hold next to a
\* box one pixel high
C6_Witness ==
    /\ pc = "done"
    /\ \E k \in 1..NumInstances :
          BoxProduct(k) > Pow2(F32Bits) /\ target.area[k] # BoxProduct(k)
    /\ \E k \in 1..NumInstances :
          /\ target.boxes.data[k][4] = target.boxes.data[k][2]
          /\ target.area[k] = 0

\* C7: label value 0 never produces an instance: no enumerated id is 0 and
\* no returned mask is the set of the 0-valued pixels, however many pixels
\* hold 0.
C7_BackgroundExcluded ==
    /\ pc \in {"split", "loop", "area", "done"} =>
          \A k \in 1..Len(obj_ids) : obj_ids[k] # 0
    /\ pc = "done" =>
          \A k \in 1..NumInstances :
             /\ target.masks.ones[k] # EqMask(mask, 0)
             /\ \A p \in target.masks.ones[k] : Pixel(mask, p) # 0

\* a returned target for a grid where 0 holds more pixels than every label
C7_Witness ==
    /\ pc = "done" /\ NumInstances >= 1
    /\ \A k \in 1..NumInstances :
          Cardinality(EqMask(mask, 0)) > Cardinality(target.masks.ones[k])

\* the target of the 3 x 3 example with the areas a1 and a2
Grid3x3Target(a1, a2) ==
    /\ NumInstances = 2
    /\ LabelOfInstance(1) = 1 /\ LabelOfInstance(2) = 2
    /\ target.masks.ones = << {<<0, 2>>, <<1, 1>>, <<1, 2>>}, {<<2, 0>>, <<2, 1>>} >>
    /\ target.boxes.data = << <<1, 0, 2, 1>>, <<0, 2, 1, 2>> >>
    /\ target.area = <<a1, a2>>

\* C8 as stated: the grid [[0,0,1],[0,1,1],[2,2,0]] yields label 1 with
\* bbox (1,0,2,1) and area 1, and label 2 with bbox (0,2,1,2) and area 1.
C8_ExampleAsStated ==
    (Terminated /\ mask = Grid3x3) => (pc = "done" /\ Grid3x3Target(1, 1))

\* C8 amended: the same two instances, masks and boxes, with area 1 for
\* label 1 and area 0 for label 2, whose box is one pixel high.
C8_Example ==
    (Terminated /\ mask = Grid3x3) => (pc = "done" /\ Grid3x3Target(1, 0))

C8_Witness == pc = "done" /\ mask = Grid3x3 /\ NumInstances = 2

\* C9: for a fixed grid every run of the decomposition ends the same way:
\* the same instance count, order, boxes, areas and masks.
C9_Deterministic ==
    \A a, b \in 1..Len(returned) :
       returned[a].idx = returned[b].idx => returned[a] = returned[b]

\* two completed runs that each returned two or more instances
C9_Witness ==
    /\ Len(returned) >= 2
    /\ returned[1].err = "none" /\ returned[2].err = "none"
    /\ Len(returned[1].target.masks.ones) >= 2
    /\ Len(returned[2].target.masks.ones) >= 2

ZeroSize == mask.H = 0 \/ mask.W = 0

C11_NoSideEffects ==
    /\ [][ /\ PNGImages' = PNGImages /\ PedMasks' = PedMasks
           /\ pc # "new" => self' = self ]_vars
    /\ [](\A k \in 1..Len(returned) :
             LET alone == Decompose(PedMasks[self.masks[returned[k].idx + 1]],
                                    returned[k].idx)
             IN  /\ returned[k].err = alone.err
                 /\ returned[k].target = alone.target)

\* a call that returned and a call that raised, on two different samples
C11_Witness ==
    /\ Len(returned) = 2 /\ pc = "idle"
    /\ returned[1].idx # returned[2].idx
    /\ returned[1].err = "none" /\ returned[2].err = "IndexError"
    /\ self.imgs = Sorted(PNGImages)

\* the directory listings hold <stem>.png and <stem>_mask.png for one set of
\* stems
MatchingDirectories ==
    {StemOfImage(x) : x \in PNGImages} = {StemOfMask(x) : x \in DOMAIN PedMasks}

\* C19: after __init__, imgs[idx] and masks[idx] name the image and the
\* mask of the same stem for every idx in 0..len(dataset)-1.
C19_Aligned ==
    (pc # "new" /\ MatchingDirectories) =>
        /\ Len(self.imgs) = Len(self.masks)
        /\ \A k \in 1..DatasetLen(self) :
              StemOfImage(self.imgs[k]) = StemOfMask(self.masks[k])

\* C12: every returned box is well-formed and inside the H x W image:
\* 0 <= xmin <= xmax <= W-1 and 0 <= ymin <= ymax <= H-1.
C12_BoxInsideImage ==
    pc = "done" =>
        \A k \in 1..Len(target.boxes.data) :
           LET b == target.boxes.data[k]
           IN  /\ 0 <= b[1] /\ b[1] <= b[3] /\ b[3] <= mask.W - 1
               /\ 0 <= b[2] /\ b[2] <= b[4] /\ b[4] <= mask.H - 1

\* a returned box that touches the last column and the last row of an image
\* that is wider than high
C12_Witness ==
    /\ pc = "done" /\ mask.W > mask.H
    /\ \E k \in 1..Len(target.boxes.data) :
          /\ target.boxes.data[k][3] = mask.W - 1
          /\ target.boxes.data[k][4] = mask.H - 1

\* C13: for every grid, a grid with N = 0 instances included, the call
\* returns a target whose boxes have shape [N, 4], labels length N, masks
\* shape [N, H, W], area and iscrowd length N, for the same N = num_objs.
C13_ShapesAgree ==
    /\ pc \in {"area", "done"} =>
          /\ boxes_t.shape = <<num_objs, 4>>
          /\ Len(labels) = num_objs
          /\ masks_t.shape = <<num_objs, mask.H, mask.W>>
    /\ Terminated =>
          /\ pc = "done"
          /\ target.boxes.shape = <<num_objs, 4>>
          /\ Len(target.boxes.data) = num_objs
          /\ Len(target.labels) = num_objs
          /\ target.masks.shape = <<num_objs, mask.H, mask.W>>
          /\ Len(target.masks.ones) = num_objs
          /\ Len(target.area) = num_objs
          /\ Len(target.iscrowd) = num_objs

\* C14: every returned instance carries the class label 1 and iscrowd 0,
\* whatever its original label value.
C14_LabelOneNotCrowd ==
    pc = "done" =>
        /\ Len(target.labels) = NumInstances
        /\ Len(target.iscrowd) = NumInstances
        /\ \A k \in 1..NumInstances :
              target.labels[k] = 1 /\ target.iscrowd[k] = 0

\* a returned target with two instances, one of them of an original label
\* other than 1
C14_Witness ==
    /\ pc = "done" /\ NumInstances >= 2
    /\ \E k \in 1..NumInstances :
          LabelOfInstance(k) # 1 /\ target.labels[k] = 1 /\ target.iscrowd[k] = 0

\* C18: every label value enumerated for instance creation has at least one
\* matching pixel, so no min/max runs over an empty position set and no
\* ValueError is raised.
C18_NoEmptyMask ==
    /\ pc \in {"loop", "area", "done"} =>
          /\ Len(masks) = num_objs
          /\ \A k \in 1..num_objs : masks[k] # {}
    /\ err # "ValueError"

\* the box loop has run over two or more planes, each with a true pixel
C18_Witness ==
    /\ pc = "loop" /\ i = num_objs /\ num_objs >= 2
    /\ \A k \in 1..num_objs : masks[k] # {}

\* C15: image_id is unique between all images of the dataset, also for the
\* samples reached through the train and test Subsets: two different
\* positions never give the same image_id.
C15_ImageIdUnique ==
    /\ \A a, b \in fetched :
          (a.subset # b.subset \/ a.pos # b.pos) => a.image_id # b.image_id
    /\ cell = "finished" =>
          {a.image_id : a \in fetched} = {ImageId(n) : n \in 0..(DatasetLen(self) - 1)}

\* both Subsets have been read and hold two or more samples each
C15_Witness ==
    /\ cell = "finished"
    /\ Cardinality({a \in fetched : a.subset = "train"}) >= 2
    /\ Cardinality({a \in fetched : a.subset = "test"}) >= 2

\* the three calls of the loop body for the epochs 0..k-1, in order
RECURSIVE LoopEvents(_)
LoopEvents(k) ==
    IF k = 0 THEN <<>>
    ELSE LoopEvents(k - 1) \o << <<"train_one_epoch", k - 1>>,
                                 <<"lr_scheduler.step", k - 1>>,
                                 <<"evaluate", k - 1>> >>

\* C17: the training cell trains for 10 epochs, and in every epoch the
\* evaluation runs exactly once, after train_one_epoch and lr_scheduler.step
\* of that epoch and before the next epoch's training.
C17_TenEpochs == cell = "finished" => events = LoopEvents(10)

SplitDone == cell \notin {"off", "split"}

Elements(seq) == {seq[k] : k \in 1..Len(seq)}

\* the two index lists are disjoint, without repetition, and cover 0..n-1
IsPartition ==
    /\ Elements(train_idx) \cap Elements(test_idx) = {}
    /\ Elements(train_idx) \cup Elements(test_idx) = 0..(DatasetLen(self) - 1)
    /\ Cardinality(Elements(train_idx)) = Len(train_idx)
    /\ Cardinality(Elements(test_idx)) = Len(test_idx)
    /\ Len(train_idx) + Len(test_idx) = DatasetLen(self)

\* C20 as stated: the split is a partition of 0..n-1, the test subset has
\* exactly 50 samples and the train subset is not empty.
C20_PartitionFiftyTest ==
    SplitDone => (IsPartition /\ Len(test_idx) = 50 /\ Len(train_idx) >= 1)

\* C20 amended: the split is a partition of 0..n-1; for n > 50 the test
\* subset has exactly 50 samples and the train subset n - 50 >= 1; for
\* n <= 50 the test subset holds all n samples and the train subset is empty.
C20_Partition ==
    SplitDone =>
        /\ IsPartition
        /\ DatasetLen(self) > 50 =>
              (Len(test_idx) = 50 /\ Len(train_idx) = DatasetLen(self) - 50
               /\ Len(train_idx) >= 1)
        /\ DatasetLen(self) <= 50 =>
              (Len(test_idx) = DatasetLen(self) /\ Len(train_idx) = 0)

\* a split of more than 50 samples whose permutation is not the identity
C20_Witness ==
    /\ SplitDone /\ DatasetLen(self) > 50
    /\ Len(test_idx) = 50 /\ Len(train_idx) >= 1
    /\ indices[1] # 0

\* what a call computes between its entry and its return
Computed(f) ==
    <<f.obj_ids, f.masks, f.num_objs, f.boxes, f.i, f.labels, f.err>>

C21_HonoursNumClasses ==
    mcell = "returned" =>
       /\ model.cls_score = num_classes
       /\ model.bbox_pred = num_classes * BoxCoords

====
